---- MODULE Spec2Model ----
(***************************************************************************)
(* A model of chiefr (src/chiefr.go): the pattern matcher of a project     *)
(* segment, the loading of the maintainers file, the resolution of a       *)
(* changeset to the segments concerned (getPatchInfo), the commands of     *)
(* main (add, ask, list, submit, update-pull-request, version) and the     *)
(* pull request handler of the GitHub project manager; and the older       *)
(* IsConcerned of src/unnamed/part_000, which takes the path from the      *)
(* patch.                                                                  *)
(*                                                                         *)
(* Strings are sequences of characters.  URLs are sequences of fragments,  *)
(* none of which is a prefix of another, so that one URL is a string       *)
(* prefix of another exactly when its fragment sequence is a prefix.       *)
(***************************************************************************)
EXTENDS Integers, Sequences, FiniteSets, TLC

VARIABLES
    \* the arguments and the result of a direct call of a matcher method
    seg, path, patch, called, ret,
    \* the maintainers file, Config.Segments read from it, and the
    \* file-patches of the patch between the revision and HEAD, once
    \* getPatchInfo has made it
    raw, config, changeset,
    \* the command run, its position, the index of getPatchInfo's loop
    cmd, pc, idx,
    \* relatedSegments and paths of getPatchInfo
    relatedSegments, paths,
    \* orderedSegmentList after sort.Sort, and the one of the sort before
    os, osPrev,
    \* the lines printed by the command, the error returned, the remote calls
    printed, err, calls,
    \* locals of HandlePullRequest that outlive its first remote call
    pr

matchVars == <<seg, path, patch, called, ret>>
runVars == <<raw, config, changeset, cmd, pc, idx, relatedSegments, paths,
             os, osPrev, printed, err, calls, pr>>
vars == <<seg, path, patch, called, ret, raw, config, changeset, cmd, pc, idx,
          relatedSegments, paths, os, osPrev, printed, err, calls, pr>>

----------------------------------------------------------------------------
(* Bounds *)

\* longest path drawn for a direct IsFileNameMatch call
MaxLen == 2
\* longest FilePatterns / FileExcludePatterns list drawn for IsFileNameMatch
MaxPat == 2
\* longest ContentPatterns / ContentExcludePatterns list drawn for IsConcerned
MaxCPat == 2
\* most chunks of the file-patch drawn for IsConcerned
MaxChunks == 2
\* most file-patches of a changeset
MaxPatches == 2

----------------------------------------------------------------------------
(* Sequences *)

Range(s) == {s[i] : i \in 1..Len(s)}

SeqUpTo(S, n) == UNION {[1..k -> S] : k \in 0..n}

\* every reordering of the sequence s
Perms(s) == {[i \in 1..Len(s) |-> s[f[i]]] : f \in Permutations(1..Len(s))}

\* every sequence that lists the elements of the set S once
Orders(S) == {o \in [1..Cardinality(S) -> S] : Range(o) = S}

IsPrefix(p, s) == Len(p) <= Len(s) /\ SubSeq(s, 1, Len(p)) = p

\* strings.Contains: w occurs in s
Contains(s, w) ==
    \E i \in 0..(Len(s) - Len(w)) : SubSeq(s, i + 1, i + Len(w)) = w

\* w is a line of s
IsLine(s, w) ==
    \E i \in 0..(Len(s) - Len(w)) :
        /\ SubSeq(s, i + 1, i + Len(w)) = w
        /\ (i = 0 \/ s[i] = "\n")
        /\ (i + Len(w) = Len(s) \/ s[i + Len(w) + 1] = "\n")

Chars == {"a", "b"}

\* a Go map: a function on the set of its keys
EmptyMap == [n \in {} |-> n]

Put(m, k, v) == [x \in (DOMAIN m) \cup {k} |-> IF x = k THEN v ELSE m[x]]

----------------------------------------------------------------------------
(* Regular expressions.  A pattern is one of                               *)
(*   lit  w : the literal w, e.g. "ab"   (found anywhere in the subject)    *)
(*   full w : the anchored literal ^w$   (the subject is w)                 *)
(*   bad    : a malformed expression, e.g. "(", that stays malformed when   *)
(*            it is wrapped                                                 *)
(*   quest w, trail w : the malformed expressions ?w and w\, which compile  *)
(*            once they are wrapped: (?m).*?w.* and (?m).*w\.* are found    *)
(*            in the texts that hold w                                      *)
(*   wraplit w, wrapfull w : (?m).*w.* and (?m).*^w$.*, the two as          *)
(*            initMaintainers wraps them; w holds no line break             *)

Lit(w) == [kind |-> "lit", w |-> w]
Full(w) == [kind |-> "full", w |-> w]
Bad == [kind |-> "bad", w |-> <<>>]
Quest(w) == [kind |-> "quest", w |-> w]
Trail(w) == [kind |-> "trail", w |-> w]

\* MatchString, if a pattern that does not compile were found in every text
MatchStringBadMatches(p, s) ==
    CASE p.kind = "lit" -> [match |-> Contains(s, p.w), err |-> FALSE]
      [] p.kind = "full" -> [match |-> s = p.w, err |-> FALSE]
      [] p.kind = "wraplit" -> [match |-> Contains(s, p.w), err |-> FALSE]
      [] p.kind = "wrapfull" -> [match |-> IsLine(s, p.w), err |-> FALSE]
      [] OTHER -> [match |-> TRUE, err |-> FALSE]

\* regexp.MatchString(pattern, s): (matched, err); a pattern that does not
\* compile gives (false, err)
MatchString(p, s) ==
    CASE p.kind = "lit" -> [match |-> Contains(s, p.w), err |-> FALSE]
      [] p.kind = "full" -> [match |-> s = p.w, err |-> FALSE]
      [] p.kind = "wraplit" -> [match |-> Contains(s, p.w), err |-> FALSE]
      [] p.kind = "wrapfull" -> [match |-> IsLine(s, p.w), err |-> FALSE]
      [] OTHER -> [match |-> FALSE, err |-> TRUE]

----------------------------------------------------------------------------
(* ProjectSegment.IsFileNameMatch *)

\* the inner loop: excluded is set by the first exclude pattern that matches
RECURSIVE ExcludeLoop(_, _, _)
ExcludeLoop(feps, s, j) ==
    IF j > Len(feps) THEN FALSE
    ELSE LET r == MatchString(feps[j], s)
         IN  IF r.match /\ ~r.err THEN TRUE
             ELSE ExcludeLoop(feps, s, j + 1)

\* a misplaced break: only the first exclude pattern is looked at
ExcludedFirstOnly(feps, s) ==
    /\ Len(feps) > 0
    /\ MatchString(feps[1], s).match
    /\ ~MatchString(feps[1], s).err

Excluded(feps, s) == ExcludeLoop(feps, s, 1)

\* the outer loop: a pattern that does not match or does not compile is
\* skipped; the first matching one that is not excluded accepts
RECURSIVE IncludeLoop(_, _, _, _)
IncludeLoop(fps, feps, s, i) ==
    IF i > Len(fps) THEN FALSE
    ELSE LET r == MatchString(fps[i], s)
         IN  IF ~r.match \/ r.err THEN IncludeLoop(fps, feps, s, i + 1)
             ELSE IF ~Excluded(feps, s) THEN TRUE
             ELSE IncludeLoop(fps, feps, s, i + 1)

IsFileNameMatch(S, p) ==
    IncludeLoop(S.FilePatterns, S.FileExcludePatterns, p, 1)

----------------------------------------------------------------------------
(* ProjectSegment.IsConcerned *)

Equal == 0
Add == 1
Delete == 2

\* the buffer if only the added lines were written to it
RECURSIVE DiffContentAddedOnly(_)
DiffContentAddedOnly(chunks) ==
    IF chunks = <<>> THEN <<>>
    ELSE (IF Head(chunks).Type = Add THEN Head(chunks).Content ELSE <<>>)
         \o DiffContentAddedOnly(Tail(chunks))

\* the bytes.Buffer after the loop over p.Chunks()
RECURSIVE DiffContent(_)
DiffContent(chunks) ==
    IF chunks = <<>> THEN <<>>
    ELSE Head(chunks).Content \o DiffContent(Tail(chunks))

\* the inner loop over ContentExcludePatterns
RECURSIVE ContentExcludeLoop(_, _, _)
ContentExcludeLoop(ceps, d, j) ==
    IF j > Len(ceps) THEN FALSE
    ELSE LET r == MatchString(ceps[j], d)
         IN  IF r.match /\ ~r.err THEN TRUE
             ELSE ContentExcludeLoop(ceps, d, j + 1)

\* the loop over ContentPatterns
RECURSIVE ContentLoop(_, _, _, _)
ContentLoop(cps, ceps, d, i) ==
    IF i > Len(cps) THEN FALSE
    ELSE LET r == MatchString(cps[i], d)
         IN  IF ~r.match \/ r.err THEN ContentLoop(cps, ceps, d, i + 1)
             ELSE IF ~ContentExcludeLoop(ceps, d, 1) THEN TRUE
             ELSE ContentLoop(cps, ceps, d, i + 1)

IsConcerned(S, p, pth) ==
    IF IsFileNameMatch(S, pth) THEN TRUE
    ELSE ContentLoop(S.ContentPatterns, S.ContentExcludePatterns,
                     DiffContent(p.Chunks), 1)

----------------------------------------------------------------------------
(* Direct calls of the two matcher methods on drawn arguments *)

\* a segment with the four pattern lists given and one chief
Segment(name, fps, feps, cps, ceps) ==
    [Name |-> name, Repository |-> <<>>, IssueTracker |-> <<>>,
     Chiefs |-> <<"alice">>, Topics |-> <<>>, Priority |-> 0,
     FilePatterns |-> fps, FileExcludePatterns |-> feps,
     ContentPatterns |-> cps, ContentExcludePatterns |-> ceps]

FilePatch(from, to, chunks) == [From |-> from, To |-> to, Chunks |-> chunks]

\* a nil *File of diff.FilePatch.Files()
Nil == <<"nil">>

Chunk(t, c) == [Type |-> t, Content |-> c]

\* the patterns drawn for the file lists
Patterns == {Lit(<<"a">>), Lit(<<"a", "b">>), Full(<<"b">>), Bad}

\* the patterns drawn for the content lists
ContentPats == {Lit(<<"a">>), Lit(<<"a", "b">>), Bad}

\* the file rules (FilePatterns, FileExcludePatterns) drawn for IsConcerned
FileRules == {<< <<>>, <<>> >>,
              << <<Lit(<<"a">>)>>, <<>> >>,
              << <<Bad, Lit(<<"a">>)>>, <<Lit(<<"a", "b">>)>> >>,
              << <<Bad, Lit(<<"a">>)>>, <<Quest(<<"a">>), Lit(<<"a", "b">>)>> >>}

ConcernedPaths == {<<"a">>, <<"a", "b">>, <<"b">>}

ChunkPool == {Chunk(Equal, <<"a">>), Chunk(Add, <<"b">>), Chunk(Delete, <<"a">>)}

NoSegment == Segment("", <<>>, <<>>, <<>>, <<>>)
NoPatch == FilePatch(Nil, Nil, <<>>)
NoFile == [readable |-> TRUE, sections |-> <<>>]
NoCmd == [name |-> "", u |-> <<>>, close |-> FALSE, git |-> "", topic |-> "",
          pathRe |-> Lit(<<>>), files |-> <<>>]
NoPR == [user |-> <<>>, repo |-> <<>>, num |-> <<>>, repoURL |-> <<>>,
         prTopics |-> <<>>, prChiefs |-> <<>>]

\* no command runs: the state of the run variables under the matcher
\* specifications
RunIdle ==
    /\ raw = NoFile
    /\ config = EmptyMap
    /\ changeset = <<>>
    /\ cmd = NoCmd
    /\ pc = "idle"
    /\ idx = 0
    /\ relatedSegments = EmptyMap
    /\ paths = <<>>
    /\ os = <<>>
    /\ osPrev = <<>>
    /\ printed = <<>>
    /\ err = ""
    /\ calls = <<>>
    /\ pr = NoPR

InitFileName ==
    /\ seg \in {Segment("s", fps, feps, <<>>, <<>>) :
                    fps \in SeqUpTo(Patterns, MaxPat),
                    feps \in SeqUpTo(Patterns, MaxPat)}
    /\ path \in SeqUpTo(Chars, MaxLen)
    /\ patch = NoPatch
    /\ called = ""
    /\ ret = FALSE
    /\ RunIdle

CallIsFileNameMatch ==
    /\ called = ""
    /\ called' = "IsFileNameMatch"
    /\ ret' = IsFileNameMatch(seg, path)
    /\ UNCHANGED <<seg, path, patch>>
    /\ UNCHANGED runVars

NextFileName == CallIsFileNameMatch

SpecFileName == InitFileName /\ [][NextFileName]_vars

InitConcerned ==
    /\ seg \in {Segment("s", fr[1], fr[2], cps, ceps) :
                    fr \in FileRules,
                    cps \in SeqUpTo(ContentPats, MaxCPat),
                    ceps \in SeqUpTo(ContentPats, MaxCPat)}
    /\ path \in ConcernedPaths
    /\ patch \in {FilePatch(path, path, cs) :
                      cs \in SeqUpTo(ChunkPool, MaxChunks)}
    /\ called = ""
    /\ ret = FALSE
    /\ RunIdle

CallIsConcerned ==
    /\ called = ""
    /\ called' = "IsConcerned"
    /\ ret' = IsConcerned(seg, patch, path)
    /\ UNCHANGED <<seg, path, patch>>
    /\ UNCHANGED runVars

NextConcerned == CallIsConcerned

SpecConcerned == InitConcerned /\ [][NextConcerned]_vars

----------------------------------------------------------------------------
(* initMaintainers *)

\* fmt.Sprintf("(?m).*%s.*", p): the pattern p wrapped to be found on any
\* line; a malformed pattern stays malformed
WrapPattern(p) ==
    CASE p.kind = "lit" -> [kind |-> "wraplit", w |-> p.w]
      [] p.kind = "full" -> [kind |-> "wrapfull", w |-> p.w]
      [] p.kind = "quest" -> [kind |-> "wraplit", w |-> p.w]
      [] p.kind = "trail" -> [kind |-> "wraplit", w |-> p.w]
      [] OTHER -> p

WrapAll(ps) == [i \in 1..Len(ps) |-> WrapPattern(ps[i])]

ErrLoad == "Failed to initialize maintainers:"
ErrMissingChiefs == "Invalid config section: missing 'Chiefs' property"

\* a maintainers file that ini.Load reads, with its sections, and one that
\* it does not (no such file, or no ini file)
File(secs) == [readable |-> TRUE, sections |-> secs]
Unreadable == [readable |-> FALSE, sections |-> <<>>]

\* the loop, if a section without chiefs were skipped as DEFAULT is
RECURSIVE SectionLoopSkipsOrphans(_, _, _)
SectionLoopSkipsOrphans(secs, i, c) ==
    IF i > Len(secs) THEN [ok |-> TRUE, segments |-> c, err |-> ""]
    ELSE LET s == secs[i]
         IN  IF s.Name = "DEFAULT" \/ Len(s.Chiefs) = 0
             THEN SectionLoopSkipsOrphans(secs, i + 1, c)
             ELSE SectionLoopSkipsOrphans(secs, i + 1,
                      Put(c, s.Name,
                          [s EXCEPT !.ContentPatterns = WrapAll(@)]))

\* the loop over cfg.Sections(): the DEFAULT section is skipped, a section
\* without chiefs ends the loading with an error and no Config
RECURSIVE SectionLoop(_, _, _)
SectionLoop(secs, i, c) ==
    IF i > Len(secs) THEN [ok |-> TRUE, segments |-> c, err |-> ""]
    ELSE LET s == secs[i]
         IN  IF s.Name = "DEFAULT" THEN SectionLoop(secs, i + 1, c)
             ELSE IF Len(s.Chiefs) = 0
             THEN [ok |-> FALSE, segments |-> EmptyMap, err |-> ErrMissingChiefs]
             ELSE SectionLoop(secs, i + 1,
                      Put(c, s.Name,
                          [s EXCEPT !.ContentPatterns = WrapAll(@)]))

\* the loading, if the Chiefs of a section were not looked at
initMaintainersUnchecked(file) ==
    LET secs == file.sections
        I == {i \in 1..Len(secs) : secs[i].Name # "DEFAULT"}
        last(n) == CHOOSE i \in I :
                       /\ secs[i].Name = n
                       /\ \A j \in I : secs[j].Name = n => j <= i
    IN  IF ~file.readable
        THEN [ok |-> FALSE, segments |-> EmptyMap, err |-> ErrLoad]
        ELSE [ok |-> TRUE,
              segments |-> [n \in {secs[i].Name : i \in I} |->
                               [secs[last(n)]
                                    EXCEPT !.ContentPatterns = WrapAll(@)]],
              err |-> ""]

\* the Config (its Segments) or the error initMaintainers returns
initMaintainers(file) ==
    IF ~file.readable
    THEN [ok |-> FALSE, segments |-> EmptyMap, err |-> ErrLoad]
    ELSE SectionLoop(file.sections, 1, EmptyMap)

----------------------------------------------------------------------------
(* getPatchInfo *)

\* to.Path(), where to is from for a deletion
\* the path, if the deletion were not looked for
EffectivePathNewOnly(p) == p.To

EffectivePath(p) == IF p.To = Nil THEN p.From ELSE p.To

appendNew(arr, s) ==
    IF \E i \in 1..Len(arr) : arr[i] = s THEN arr ELSE Append(arr, s)

\* the loop, if it were left at the first segment concerned
RECURSIVE SegmentLoopStops(_, _, _, _, _)
SegmentLoopStops(K, p, pth, ord, rel) ==
    IF ord = <<>> THEN rel
    ELSE IF IsConcerned(K[Head(ord)], p, pth)
    THEN Put(rel, Head(ord), K[Head(ord)])
    ELSE SegmentLoopStops(K, p, pth, Tail(ord), rel)

\* the loop over c.Segments, which Go ranges over in the order ord
RECURSIVE SegmentLoop(_, _, _, _, _)
SegmentLoop(K, p, pth, ord, rel) ==
    IF ord = <<>> THEN rel
    ELSE LET sName == Head(ord)
         IN  SegmentLoop(K, p, pth, Tail(ord),
                 IF IsConcerned(K[sName], p, pth)
                 THEN Put(rel, sName, K[sName])
                 ELSE rel)

\* the body of the loop, if relatedSegments were made anew for every patch
PatchBodyForgets(K, p, ord, acc) ==
    [rel |-> SegmentLoop(K, p, EffectivePath(p), ord, EmptyMap),
     paths |-> appendNew(acc.paths, EffectivePath(p))]

\* the body of the loop over patch.FilePatches()
PatchBody(K, p, ord, acc) ==
    [rel |-> SegmentLoop(K, p, EffectivePath(p), ord, acc.rel),
     paths |-> appendNew(acc.paths, EffectivePath(p))]

\* the whole loop on the file-patches C, ords[i] being the order in which
\* the segments are ranged over for the i-th patch
RECURSIVE PatchLoop(_, _, _, _, _)
PatchLoop(K, C, ords, i, acc) ==
    IF i > Len(C) THEN acc
    ELSE PatchLoop(K, C, ords, i + 1, PatchBody(K, C[i], ords[i], acc))

getPatchInfo(K, C, ords) ==
    PatchLoop(K, C, ords, 1, [rel |-> EmptyMap, paths |-> <<>>])

ErrOpenRepo == "Failed to open git repository:"
ErrHead == "Failed to get HEAD of repository:"
ErrHeadCommit == "Failed to get HEAD commit:"
ErrHistory == "Failed to get history of commit range"
ErrRevision == "Failed to resolve revision"
ErrPatch == "Failed to create patch:"

\* the error getPatchInfo returns when a call of git fails:
\*   norepo       git.PlainOpen
\*   nohead       repo.Head in getPatchInfo
\*   noheadcommit repo.CommitObject of the head
\*   revnohead    repo.Head in getCommitByRev
\*   nohistory    repo.Log
\*   norev        the revision is no commit, branch or remote reference
\*   norevcommit  repo.CommitObject of the resolved revision
\*   nopatch      firstCommit.Patch
GitErr(git) ==
    CASE git = "norepo" -> ErrOpenRepo
      [] git = "nohead" -> ErrHead
      [] git = "noheadcommit" -> ErrHeadCommit
      [] git = "revnohead" -> ErrHead
      [] git = "nohistory" -> ErrHistory
      [] git = "norev" -> ErrRevision
      [] git = "norevcommit" -> ErrRevision
      [] git = "nopatch" -> ErrPatch

\* the outcomes of the calls of git after which getPatchInfo returns an error
GitFailures == {"norepo", "nohead", "noheadcommit", "revnohead", "nohistory",
                "norev", "norevcommit", "nopatch"}

\* what the calls of git come to.  ok: the patch is made.  panic: the
\* revision is only a remote reference and *rev = ref.Hash() writes through
\* the nil pointer of the failed ResolveRevision.  Where ResolveRevision
\* returned the address of a hash with its error, the write goes through and
\* the run goes on as in ok, or fails as in norevcommit.
GitOutcomes == {"ok", "panic"} \cup GitFailures

\* the outcomes after which getPatchInfo returns
GitReturns == {"ok"} \cup GitFailures

----------------------------------------------------------------------------
(* orderedSegmentList and sort.Sort, which sorts a list this short by      *)
(* insertion                                                                *)

Less(o, i, j) == o[i].Priority > o[j].Priority

Swap(o, i, j) == [o EXCEPT ![i] = o[j], ![j] = o[i]]

RECURSIVE InsertDown(_, _)
InsertDown(o, j) ==
    IF j > 1 /\ Less(o, j, j - 1) THEN InsertDown(Swap(o, j, j - 1), j - 1)
    ELSE o

RECURSIVE InsertionSort(_, _)
InsertionSort(o, i) ==
    IF i > Len(o) THEN o ELSE InsertionSort(InsertDown(o, i), i + 1)

\* a sort that is given the list and leaves it as it is
SortNothing(o) == o

Sort(o) == InsertionSort(o, 2)

\* os after the loop appending the segments of the map, ranged over in the
\* order ord, and sort.Sort
SortedSegments(segments, ord) ==
    Sort([i \in 1..Len(ord) |-> segments[ord[i]]])

----------------------------------------------------------------------------
(* submit *)

ErrNoFiles == "No files to submit"
ErrNoSegments == "No matching segments found for this patch"

\* the two checks, if the one of the segments came first
SubmitCheckSwapped(files, segments) ==
    IF Cardinality(DOMAIN segments) = 0 THEN ErrNoSegments
    ELSE IF Len(files) = 0 THEN ErrNoFiles
    ELSE ""

\* the two checks of what getPatchInfo returned: the error, "" if none
SubmitCheck(files, segments) ==
    IF Len(files) = 0 THEN ErrNoFiles
    ELSE IF Cardinality(DOMAIN segments) = 0 THEN ErrNoSegments
    ELSE ""

\* the loop printing the repository of every segment of os whose repository
\* no earlier segment of os has
RECURSIVE PrintLoop(_, _, _)
PrintLoop(o, i, out) ==
    IF i > Len(o) THEN out
    ELSE PrintLoop(o, i + 1,
             IF \E k \in 1..(i - 1) : o[k].Repository = o[i].Repository
             THEN out
             ELSE Append(out, o[i].Repository))

----------------------------------------------------------------------------
(* URLs *)

VERSION == "0.1.0"
GitHub == "https://github.com"
HostFragments == {GitHub, "https://x"}
Digits == {"42"}

\* url.Parse(u) returns no error
ParseOK(u) == \A i \in 1..Len(u) : u[i] # "%zz"

\* URL.Host, with its scheme
URLHost(u) == IF Len(u) > 0 /\ u[1] \in HostFragments THEN u[1] ELSE ""

\* URL.Path
URLPath(u) == IF Len(u) > 0 /\ u[1] \in HostFragments THEN Tail(u) ELSE u

\* the test, if it were one of equality
HasPrefixWhole(u, prefix) == u = prefix

\* strings.HasPrefix(u, prefix)
HasPrefix(u, prefix) == IsPrefix(prefix, u)

\* strings.Split(s, "/")
RECURSIVE Split(_)
Split(s) ==
    IF \A i \in 1..Len(s) : s[i] # "/" THEN <<s>>
    ELSE LET k == CHOOSE i \in 1..Len(s) :
                      s[i] = "/" /\ \A j \in 1..(i - 1) : s[j] # "/"
         IN  <<SubSeq(s, 1, k - 1)>> \o Split(SubSeq(s, k + 1, Len(s)))

\* Atoi, if it took any text for a number
AtoiOKAnyText(s) == TRUE

\* strconv.Atoi(s) returns no error
AtoiOK(s) == Len(s) > 0 /\ \A i \in 1..Len(s) : s[i] \in Digits

ErrParsePM == "Failed to parse project manager url"
ErrNoPM == "Cannot find project manager handler for url"

\* the error of getProjectManagerFromURL, "" when it returns a GitHubManager
getProjectManagerFromURL(u) ==
    IF ~ParseOK(u) THEN ErrParsePM
    ELSE IF URLHost(u) = GitHub THEN ""
    ELSE ErrNoPM

----------------------------------------------------------------------------
(* GitHubManager.HandlePullRequest, up to its first remote call *)

ErrNoSegmentsPR ==
    "No matching segments found for this patch. Please edit your maintainers file"
ErrParsePR == "Failed to parse pull request URL"
ErrNoChiefs == "Chiefs not found for this pull request"
ErrInvalidURL == "Invalid pull request URL"
ErrNoRepo == "No repository found for this pull request"
ErrComment == "Failed to create comment for pull request"
ErrClose == "Failed to close pull request"
ErrLabels == "Failed to add labels to pull request"
ErrAssignees == "Failed to add assignees to pull request"

RECURSIVE AppendAllNew(_, _)
AppendAllNew(arr, xs) ==
    IF xs = <<>> THEN arr
    ELSE AppendAllNew(appendNew(arr, Head(xs)), Tail(xs))

\* the loop, if it took the topics and the chiefs of those segments only
\* whose repository prefixes the URL
RECURSIVE RangeLoopMatchingOnly(_, _, _, _)
RangeLoopMatchingOnly(u, segments, ord, acc) ==
    IF ord = <<>> THEN acc
    ELSE LET s == segments[Head(ord)]
             m == HasPrefix(u, s.Repository)
         IN  RangeLoopMatchingOnly(u, segments, Tail(ord),
                 [repoURL |-> IF acc.repoURL = <<>> /\ m
                              THEN s.Repository
                              ELSE acc.repoURL,
                  prTopics |-> IF m THEN AppendAllNew(acc.prTopics, s.Topics)
                               ELSE acc.prTopics,
                  prChiefs |-> IF m THEN AppendAllNew(acc.prChiefs, s.Chiefs)
                               ELSE acc.prChiefs])

\* the loop over segments, ranged over in the order ord, that finds repoURL
\* and collects the topics and the chiefs
RECURSIVE RangeLoop(_, _, _, _)
RangeLoop(u, segments, ord, acc) ==
    IF ord = <<>> THEN acc
    ELSE LET s == segments[Head(ord)]
         IN  RangeLoop(u, segments, Tail(ord),
                 [repoURL |-> IF acc.repoURL = <<>> /\ HasPrefix(u, s.Repository)
                              THEN s.Repository
                              ELSE acc.repoURL,
                  prTopics |-> AppendAllNew(acc.prTopics, s.Topics),
                  prChiefs |-> AppendAllNew(acc.prChiefs, s.Chiefs)])

\* the first remote call when no repository was found, if the close flag
\* were not looked at
AfterNoRepoAlwaysClose(close) == [pc |-> "comment", err |-> ""]

\* repoURL == "": an error unless the pull request is to be closed
AfterNoRepo(close) ==
    IF ~close THEN [pc |-> "done", err |-> ErrNoRepo]
    ELSE [pc |-> "comment", err |-> ""]

\* the first remote call after a repository was found, if the branch taken
\* were the one that closes the pull request
FirstCallSwapped(repoURL, close) ==
    IF repoURL = <<>> THEN [pc |-> "labels", err |-> ""]
    ELSE AfterNoRepo(close)

\* the branch on repoURL
FirstCall(repoURL, close) ==
    IF repoURL = <<>> THEN AfterNoRepo(close)
    ELSE [pc |-> "labels", err |-> ""]

\* the handler without its first check, len(segments) == 0
HandlePullRequestUnguarded(u, segments, close, ord1, ord2) ==
    LET o == SortedSegments(segments, ord1)
        acc == RangeLoop(u, segments, ord2,
                   [repoURL |-> <<>>, prTopics |-> <<>>, prChiefs |-> <<>>])
        pathParts == Split(URLPath(u))
        failed(e) == [pc |-> "done", err |-> e, os |-> o, pr |-> NoPR]
    IN  IF ~ParseOK(u) THEN failed(ErrParsePR)
        ELSE IF Len(acc.prChiefs) = 0 THEN failed(ErrNoChiefs)
        ELSE IF \/ Len(pathParts) # 5
                \/ pathParts[4] # <<"pull">>
                \/ pathParts[2] = <<>>
                \/ pathParts[3] = <<>>
        THEN failed(ErrInvalidURL)
        ELSE IF ~AtoiOK(pathParts[5]) THEN failed(ErrInvalidURL)
        ELSE LET first == FirstCall(acc.repoURL, close)
             IN  [pc |-> first.pc, err |-> first.err, os |-> o,
                  pr |-> [user |-> pathParts[2], repo |-> pathParts[3],
                          num |-> pathParts[5], repoURL |-> acc.repoURL,
                          prTopics |-> acc.prTopics,
                          prChiefs |-> acc.prChiefs]]

\* the position HandlePullRequest reaches before its first remote call, the
\* error it returns if it returns there, os and its locals; ord1 and ord2 are
\* the orders in which its two loops range over segments
HandlePullRequest(u, segments, close, ord1, ord2) ==
    IF Cardinality(DOMAIN segments) = 0
    THEN [pc |-> "done", err |-> ErrNoSegmentsPR, os |-> <<>>, pr |-> NoPR]
    ELSE
    LET o == SortedSegments(segments, ord1)
        acc == RangeLoop(u, segments, ord2,
                   [repoURL |-> <<>>, prTopics |-> <<>>, prChiefs |-> <<>>])
        pathParts == Split(URLPath(u))
        failed(e) == [pc |-> "done", err |-> e, os |-> o, pr |-> NoPR]
    IN  IF ~ParseOK(u) THEN failed(ErrParsePR)
        ELSE IF Len(acc.prChiefs) = 0 THEN failed(ErrNoChiefs)
        ELSE IF \/ Len(pathParts) # 5
                \/ pathParts[4] # <<"pull">>
                \/ pathParts[2] = <<>>
                \/ pathParts[3] = <<>>
        THEN failed(ErrInvalidURL)
        ELSE IF ~AtoiOK(pathParts[5]) THEN failed(ErrInvalidURL)
        ELSE LET first == FirstCall(acc.repoURL, close)
             IN  [pc |-> first.pc, err |-> first.err, os |-> o,
                  pr |-> [user |-> pathParts[2], repo |-> pathParts[3],
                          num |-> pathParts[5], repoURL |-> acc.repoURL,
                          prTopics |-> acc.prTopics,
                          prChiefs |-> acc.prChiefs]]

\* a call of the GitHub client
RemoteCall(op, arg) ==
    [op |-> op, user |-> pr.user, repo |-> pr.repo, num |-> pr.num, arg |-> arg]

----------------------------------------------------------------------------
(* ask and list *)

ErrNoTopics == "No topics found for this project"
ErrHeadRef == "Failed to get HEAD reference:"
ErrListHeadCommit == "Failed to get HEAD commit"
ErrTree == "Failed to get files from repository:"

\* the loop over config.Segments, ranged over in the order ord, that
\* collects the topics
RECURSIVE TopicsLoop(_, _, _)
TopicsLoop(segments, ord, topics) ==
    IF ord = <<>> THEN topics
    ELSE TopicsLoop(segments, Tail(ord),
                    AppendAllNew(topics, segments[Head(ord)].Topics))

\* the loop over os that collects the issue trackers of the segments that
\* have one and have the topic
RECURSIVE IssueTrackersLoop(_, _, _, _)
IssueTrackersLoop(o, topic, i, issueTrackers) ==
    IF i > Len(o) THEN issueTrackers
    ELSE IssueTrackersLoop(o, topic, i + 1,
             IF o[i].IssueTracker = <<>> THEN issueTrackers
             ELSE IF \E k \in 1..Len(o[i].Topics) : o[i].Topics[k] = topic
             THEN appendNew(issueTrackers, o[i].IssueTracker)
             ELSE issueTrackers)

\* ask: the error it returns, the list it sorted and the lines it printed,
\* config.Segments being ranged over in the order ord
ask(segments, topic, ord) ==
    IF topic = ""
    THEN LET topics == TopicsLoop(segments, ord, <<>>)
         IN  IF Len(topics) = 0
             THEN [err |-> ErrNoTopics, os |-> <<>>, printed |-> <<>>]
             ELSE [err |-> "", os |-> <<>>, printed |-> <<topics>>]
    ELSE LET o == SortedSegments(segments, ord)
         IN  [err |-> "", os |-> o,
              printed |-> IssueTrackersLoop(o, topic, 1, <<>>)]

\* the default of PATH_REGEX, .*, which like the empty expression is found
\* in every name
DefaultPathRegex == Lit(<<>>)

\* the names of the segments, ranged over in the order ord, whose file
\* rules accept the name
RECURSIVE FileSegmentsLoop(_, _, _, _)
FileSegmentsLoop(segments, name, ord, names) ==
    IF ord = <<>> THEN names
    ELSE FileSegmentsLoop(segments, name, Tail(ord),
             IF IsFileNameMatch(segments[Head(ord)], name)
             THEN Append(names, Head(ord))
             ELSE names)

\* the line list prints for a file: its segments, or the note that it has
\* none, and its name
FileLine(segments, name, ord) ==
    LET names == FileSegmentsLoop(segments, name, ord, <<>>)
    IN  (IF Len(names) = 0 THEN <<"[No segments found]">> ELSE names)
            \o <<":">> \o name

\* tree.Files().ForEach: a file whose name pathRe is not found in, or a
\* malformed pathRe, prints nothing; ords[i] is the order in which the
\* segments are ranged over for the i-th file
RECURSIVE FilesLoop(_, _, _, _, _, _)
FilesLoop(segments, files, pathRe, ords, i, out) ==
    IF i > Len(files) THEN out
    ELSE LET r == MatchString(pathRe, files[i])
         IN  FilesLoop(segments, files, pathRe, ords, i + 1,
                 IF ~r.match \/ r.err THEN out
                 ELSE Append(out, FileLine(segments, files[i], ords[i])))

\* the error list returns when a call of git fails:
\*   norepo       git.PlainOpen
\*   nohead       repo.Head
\*   noheadcommit repo.CommitObject of the head
\*   notree       headCommit.Tree
ListErr(git) ==
    CASE git = "norepo" -> ErrOpenRepo
      [] git = "nohead" -> ErrHeadRef
      [] git = "noheadcommit" -> ErrListHeadCommit
      [] git = "notree" -> ErrTree

ListFailures == {"norepo", "nohead", "noheadcommit", "notree"}

ListOutcomes == {"ok"} \cup ListFailures

\* list: the error it returns and the lines it printed
list(segments, git, files, pathRe, ords) ==
    IF git \in ListFailures
    THEN [err |-> ListErr(git), printed |-> <<>>]
    ELSE [err |-> "",
          printed |-> FilesLoop(segments, files, pathRe, ords, 1, <<>>)]

----------------------------------------------------------------------------
(* The maintainers files, changesets and pull request URLs of the runs *)

RepoDocs == <<"https://x", "/", "docs">>
RepoWidgets == <<GitHub, "/", "acme", "/", "widgets">>
TrackerDocs == RepoDocs \o <<"/", "issues">>
TrackerWidgets == RepoWidgets \o <<"/", "issues">>

Section(name, repository, chiefs, topics, priority, fps, feps, cps, ceps) ==
    [Name |-> name, Repository |-> repository, IssueTracker |-> <<>>,
     Chiefs |-> chiefs, Topics |-> topics, Priority |-> priority,
     FilePatterns |-> fps, FileExcludePatterns |-> feps,
     ContentPatterns |-> cps, ContentExcludePatterns |-> ceps]

DefaultSection == Section("DEFAULT", <<>>, <<>>, <<>>, 0, <<>>, <<>>, <<>>, <<>>)

\* paths with an a but no ab
DocsSection ==
    [Section("docs", RepoDocs, <<"alice">>, <<"doc">>, 0,
             <<Lit(<<"a">>)>>, <<Lit(<<"a", "b">>)>>, <<>>, <<>>)
        EXCEPT !.IssueTracker = TrackerDocs]

\* paths with a b; its first pattern is malformed
CodeSection ==
    [Section("code", RepoWidgets, <<"bob", "alice">>, <<"go", "doc">>, 1,
             <<Bad, Lit(<<"b">>)>>, <<>>, <<>>, <<>>)
        EXCEPT !.IssueTracker = TrackerWidgets]

\* patches whose text holds ab but no c; no repository.  Its content
\* patterns are ( and ?ab, both malformed as written; the second one
\* compiles as initMaintainers wraps it
TodoSection ==
    Section("todo", <<>>, <<"carol">>, <<"todo">>, 1,
            <<>>, <<>>, <<Bad, Quest(<<"a", "b">>)>>, <<Lit(<<"c">>)>>)

\* the path c; the repository and the issue tracker of docs
SiteSection ==
    [Section("site", RepoDocs, <<"alice">>, <<"web">>, 2,
             <<Full(<<"c">>)>>, <<>>, <<>>, <<>>)
        EXCEPT !.IssueTracker = TrackerDocs]

\* no chiefs
OrphanSection ==
    Section("orphan", RepoDocs, <<>>, <<"doc">>, 0,
            <<Lit(<<"a">>)>>, <<>>, <<>>, <<>>)

ValidSections == <<DocsSection, CodeSection, TodoSection, SiteSection>>

\* the sections of ValidSections at the indices in I, in their order
RECURSIVE Pick(_, _)
Pick(I, i) ==
    IF i > Len(ValidSections) THEN <<>>
    ELSE (IF i \in I THEN <<ValidSections[i]>> ELSE <<>>) \o Pick(I, i + 1)

RawConfigs ==
    {File(<<DefaultSection>> \o Pick(I, 1)) :
         I \in SUBSET (1..Len(ValidSections))}
    \cup {File(<<DefaultSection, OrphanSection>>),
          File(<<DefaultSection, DocsSection, OrphanSection, CodeSection>>),
          Unreadable}

PatchPool ==
    {FilePatch(<<"a">>, <<"a">>, <<Chunk(Equal, <<"a">>), Chunk(Add, <<"b">>)>>),
     FilePatch(Nil, <<"b">>, <<Chunk(Add, <<"c">>)>>),
     FilePatch(<<"a", "a">>, Nil, <<Chunk(Delete, <<"a", "b", "c">>)>>),
     FilePatch(<<"c">>, <<"c">>, <<Chunk(Delete, <<"a">>), Chunk(Add, <<"b">>)>>),
     FilePatch(<<"c", "c">>, <<"c", "c">>, <<Chunk(Equal, <<"c">>)>>)}

\* the TOPIC argument of ask: none, the topic of docs and code, that of todo,
\* which has no issue tracker, and a topic of no segment
AskTopics == {"", "doc", "todo", "none"}

\* the PATH_REGEX argument of list, .* when there is none
PathRegexes == {DefaultPathRegex, Lit(<<"a">>), Bad}

\* the names of the files of the tree of the head commit
TreePool == {<<>>,
             << <<"c">> >>,
             << <<"a">>, <<"a", "b">> >>,
             << <<"b">>, <<"c", "c">> >>}

PullURL(owner, repo, marker, num) ==
    <<GitHub, "/">> \o owner \o <<"/">> \o repo \o <<"/", marker, "/", num>>

PRURLs ==
    {PullURL(<<"acme">>, <<"widgets">>, "pull", "42"),
     PullURL(<<"acme">>, <<"other">>, "pull", "42"),
     PullURL(<<"acme">>, <<"widgets">>, "issues", "42"),
     PullURL(<<>>, <<"widgets">>, "pull", "42"),
     PullURL(<<"acme">>, <<"widgets">>, "pull", "x"),
     PullURL(<<"acme">>, <<>>, "pull", "42"),
     PullURL(<<"acme">>, <<"widgets">>, "pull", "42") \o <<"/", "files">>,
     <<GitHub, "/", "acme", "/", "widgets">>,
     RepoDocs \o <<"/", "pull", "/", "42">>}

----------------------------------------------------------------------------
(* A run of the program: the Before hook loads the maintainers file, then   *)
(* one command runs                                                         *)

MatchIdle ==
    /\ seg = NoSegment
    /\ path = <<>>
    /\ patch = NoPatch
    /\ called = ""
    /\ ret = FALSE

\* the state when the Before hook of main has run: the process has exited
\* if initMaintainers returned an error
Init ==
    /\ MatchIdle
    /\ raw \in RawConfigs
    /\ changeset = <<>>
    /\ config = initMaintainers(raw).segments
    /\ err = initMaintainers(raw).err
    /\ pc = IF initMaintainers(raw).ok THEN "idle" ELSE "exit"
    /\ cmd = NoCmd
    /\ idx = 0
    /\ relatedSegments = EmptyMap
    /\ paths = <<>>
    /\ os = <<>>
    /\ osPrev = <<>>
    /\ printed = <<>>
    /\ calls = <<>>
    /\ pr = NoPR

\* getPatchInfo up to its loop: it returns the error of git if there is
\* one, and has the file-patches of patch.FilePatches() if not
EnterPatchInfo(git) ==
    /\ pc' = CASE git = "ok" -> "patches"
               [] git = "panic" -> "panic"
               [] OTHER -> "done"
    /\ err' = IF git \in GitFailures THEN GitErr(git) ELSE ""
    /\ IF git = "ok"
       THEN changeset' \in SeqUpTo(PatchPool, MaxPatches)
       ELSE changeset' = changeset
    /\ idx' = 1
    /\ relatedSegments' = EmptyMap
    /\ paths' = <<>>

\* submit is called and calls getPatchInfo
Submit ==
    /\ pc = "idle"
    /\ \E git \in GitOutcomes :
        /\ cmd' = [NoCmd EXCEPT !.name = "submit", !.git = git]
        /\ EnterPatchInfo(git)
    /\ UNCHANGED <<raw, config, os, osPrev, printed, calls, pr>>
    /\ UNCHANGED matchVars

\* checkPullRequest is called: it returns the error of
\* getProjectManagerFromURL if there is one, and calls getPatchInfo if not
CheckPullRequest ==
    /\ pc = "idle"
    /\ \E u \in PRURLs, close \in BOOLEAN, git \in GitOutcomes :
        /\ cmd' = [NoCmd EXCEPT !.name = "update-pull-request", !.u = u,
                                !.close = close, !.git = git]
        /\ IF getProjectManagerFromURL(u) # ""
           THEN /\ pc' = "done"
                /\ err' = getProjectManagerFromURL(u)
                /\ UNCHANGED <<changeset, idx, relatedSegments, paths>>
           ELSE EnterPatchInfo(git)
    /\ UNCHANGED <<raw, config, os, osPrev, printed, calls, pr>>
    /\ UNCHANGED matchVars

\* ask is called with the topic, or with none
Ask ==
    /\ pc = "idle"
    /\ \E topic \in AskTopics, ord \in Orders(DOMAIN config) :
        LET r == ask(config, topic, ord)
        IN  /\ cmd' = [NoCmd EXCEPT !.name = "ask", !.topic = topic]
            /\ err' = r.err
            /\ os' = r.os
            /\ osPrev' = IF r.os = <<>> THEN osPrev ELSE os
            /\ printed' = r.printed
    /\ pc' = "done"
    /\ UNCHANGED <<raw, config, changeset, idx, relatedSegments, paths,
                   calls, pr>>
    /\ UNCHANGED matchVars

\* list is called on the repository, whose head commit has the files
List ==
    /\ pc = "idle"
    /\ \E git \in ListOutcomes, pathRe \in PathRegexes :
        \E files \in (IF git = "ok" THEN TreePool ELSE {<<>>}) :
            \E ords \in [1..Len(files) -> Orders(DOMAIN config)] :
                LET r == list(config, git, files, pathRe, ords)
                IN  /\ cmd' = [NoCmd EXCEPT !.name = "list", !.git = git,
                                            !.pathRe = pathRe,
                                            !.files = files]
                    /\ err' = r.err
                    /\ printed' = r.printed
    /\ pc' = "done"
    /\ UNCHANGED <<raw, config, changeset, idx, relatedSegments, paths,
                   os, osPrev, calls, pr>>
    /\ UNCHANGED matchVars

\* add prints that it is not implemented
AddSegment ==
    /\ pc = "idle"
    /\ cmd' = [NoCmd EXCEPT !.name = "add"]
    /\ printed' = << <<"not implemented">> >>
    /\ pc' = "done"
    /\ UNCHANGED <<raw, config, changeset, idx, relatedSegments, paths,
                   os, osPrev, err, calls, pr>>
    /\ UNCHANGED matchVars

\* version prints the version
PrintVersion ==
    /\ pc = "idle"
    /\ cmd' = [NoCmd EXCEPT !.name = "version"]
    /\ printed' = << <<"Chiefr v", VERSION>> >>
    /\ pc' = "done"
    /\ UNCHANGED <<raw, config, changeset, idx, relatedSegments, paths,
                   os, osPrev, err, calls, pr>>
    /\ UNCHANGED matchVars

\* one round of the loop of getPatchInfo over patch.FilePatches()
PatchStep ==
    /\ pc = "patches"
    /\ idx <= Len(changeset)
    /\ \E ord \in Orders(DOMAIN config) :
        LET acc == PatchBody(config, changeset[idx], ord,
                             [rel |-> relatedSegments, paths |-> paths])
        IN  /\ relatedSegments' = acc.rel
            /\ paths' = acc.paths
    /\ idx' = idx + 1
    /\ UNCHANGED <<raw, config, changeset, cmd, pc, os, osPrev, printed, err,
                   calls, pr>>
    /\ UNCHANGED matchVars

\* getPatchInfo has returned to submit, which checks what it got, sorts the
\* segments and prints their repositories
SubmitReturn ==
    /\ pc = "patches"
    /\ idx > Len(changeset)
    /\ cmd.name = "submit"
    /\ pc' = "done"
    /\ IF SubmitCheck(paths, relatedSegments) # ""
       THEN /\ err' = SubmitCheck(paths, relatedSegments)
            /\ UNCHANGED <<os, osPrev, printed>>
       ELSE \E ord \in Orders(DOMAIN relatedSegments) :
               /\ os' = SortedSegments(relatedSegments, ord)
               /\ osPrev' = os
               /\ printed' = PrintLoop(os', 1, <<>>)
               /\ err' = ""
    /\ UNCHANGED <<raw, config, changeset, cmd, idx, relatedSegments, paths,
                   calls, pr>>
    /\ UNCHANGED matchVars

\* getPatchInfo has returned to checkPullRequest, which calls
\* HandlePullRequest; it runs up to its first remote call
HandlePullRequestCall ==
    /\ pc = "patches"
    /\ idx > Len(changeset)
    /\ cmd.name = "update-pull-request"
    /\ \E ord1 \in Orders(DOMAIN relatedSegments),
          ord2 \in Orders(DOMAIN relatedSegments) :
        LET r == HandlePullRequest(cmd.u, relatedSegments, cmd.close, ord1, ord2)
        IN  /\ pc' = r.pc
            /\ err' = r.err
            /\ os' = r.os
            /\ osPrev' = IF r.os = <<>> THEN osPrev ELSE os
            /\ pr' = r.pr
    /\ UNCHANGED <<raw, config, changeset, cmd, idx, relatedSegments, paths,
                   printed, calls>>
    /\ UNCHANGED matchVars

\* a remote call whose failure is noted, but after which the handler goes on
RemoteGoesOn(at, op, arg, next, failure) ==
    /\ pc = at
    /\ calls' = Append(calls, RemoteCall(op, arg))
    /\ \E ok \in BOOLEAN :
        /\ pc' = next
        /\ err' = IF ok THEN "" ELSE failure
    /\ UNCHANGED <<raw, config, changeset, cmd, idx, relatedSegments, paths,
                   os, osPrev, printed, pr>>
    /\ UNCHANGED matchVars

\* a remote call is made and fails or not; after it the handler goes on to
\* next, or returns
Remote(at, op, arg, next, failure) ==
    /\ pc = at
    /\ calls' = Append(calls, RemoteCall(op, arg))
    /\ \E ok \in BOOLEAN :
        /\ pc' = IF ok THEN next ELSE "done"
        /\ err' = IF ok THEN "" ELSE failure
    /\ UNCHANGED <<raw, config, changeset, cmd, idx, relatedSegments, paths,
                   os, osPrev, printed, pr>>
    /\ UNCHANGED matchVars

\* client.Issues.CreateComment with the repository of os[0]
CreateComment ==
    Remote("comment", "CreateComment", os[1].Repository, "close", ErrComment)

\* client.PullRequests.Edit with the state closed
EditClosed == Remote("close", "Edit", "closed", "done", ErrClose)

\* client.Issues.AddLabelsToIssue with prTopics
AddLabelsToIssue ==
    Remote("labels", "AddLabelsToIssue", pr.prTopics, "assignees", ErrLabels)

\* client.Issues.AddAssignees with prChiefs
AddAssignees ==
    Remote("assignees", "AddAssignees", pr.prChiefs, "done", ErrAssignees)

Next ==
    \/ AddSegment
    \/ Ask
    \/ List
    \/ Submit
    \/ CheckPullRequest
    \/ PrintVersion
    \/ PatchStep
    \/ SubmitReturn
    \/ HandlePullRequestCall
    \/ CreateComment
    \/ EditClosed
    \/ AddLabelsToIssue
    \/ AddAssignees

Spec == Init /\ [][Next]_vars

----------------------------------------------------------------------------
(* The older ProjectSegment.IsConcerned (src/unnamed/part_000), which takes  *)
(* the patch alone, and calls of the two variants on the same arguments     *)

\* the path, if it were that of the old file
OldPathOfFrom(p) == p.From

\* from, to := p.Files(); to = from for a deletion; to.Path()
OldPath(p) == IF p.To = Nil THEN p.From ELSE p.To

\* the loop over FileExcludePatterns
RECURSIVE OldFileExcludeLoop(_, _, _)
OldFileExcludeLoop(feps, s, j) ==
    IF j > Len(feps) THEN FALSE
    ELSE LET r == MatchString(feps[j], s)
         IN  IF r.match /\ ~r.err THEN TRUE
             ELSE OldFileExcludeLoop(feps, s, j + 1)

\* the file name check: TRUE when it returns true, FALSE when the loop ends
RECURSIVE OldFileLoop(_, _, _, _)
OldFileLoop(fps, feps, s, i) ==
    IF i > Len(fps) THEN FALSE
    ELSE LET r == MatchString(fps[i], s)
         IN  IF ~r.match \/ r.err THEN OldFileLoop(fps, feps, s, i + 1)
             ELSE IF ~OldFileExcludeLoop(feps, s, 1) THEN TRUE
             ELSE OldFileLoop(fps, feps, s, i + 1)

\* the buffer after the loop over p.Chunks()
RECURSIVE OldDiffContent(_)
OldDiffContent(chunks) ==
    IF chunks = <<>> THEN <<>>
    ELSE Head(chunks).Content \o OldDiffContent(Tail(chunks))

\* the loop over ContentExcludePatterns
RECURSIVE OldContentExcludeLoop(_, _, _)
OldContentExcludeLoop(ceps, d, j) ==
    IF j > Len(ceps) THEN FALSE
    ELSE LET r == MatchString(ceps[j], d)
         IN  IF r.match /\ ~r.err THEN TRUE
             ELSE OldContentExcludeLoop(ceps, d, j + 1)

\* the content match
RECURSIVE OldContentLoop(_, _, _, _)
OldContentLoop(cps, ceps, d, i) ==
    IF i > Len(cps) THEN FALSE
    ELSE LET r == MatchString(cps[i], d)
         IN  IF ~r.match \/ r.err THEN OldContentLoop(cps, ceps, d, i + 1)
             ELSE IF ~OldContentExcludeLoop(ceps, d, 1) THEN TRUE
             ELSE OldContentLoop(cps, ceps, d, i + 1)

IsConcernedOld(S, p) ==
    IF OldFileLoop(S.FilePatterns, S.FileExcludePatterns, OldPath(p), 1)
    THEN TRUE
    ELSE OldContentLoop(S.ContentPatterns, S.ContentExcludePatterns,
                        OldDiffContent(p.Chunks), 1)

\* the content rules (ContentPatterns, ContentExcludePatterns) drawn
ContentRules == {<< <<>>, <<>> >>,
                 << <<Lit(<<"b">>)>>, <<>> >>,
                 << <<Bad, Lit(<<"a">>)>>, <<Lit(<<"a", "b">>)>> >>,
                 << <<Lit(<<"a", "b">>)>>, <<Trail(<<"a">>), Lit(<<"b", "a">>)>> >>}

\* the files of a patch: an addition has no old file, a deletion no new one
PatchFiles ==
    {f \in (ConcernedPaths \cup {Nil}) \X (ConcernedPaths \cup {Nil}) :
         f[1] # Nil \/ f[2] # Nil}

InitVariants ==
    /\ seg \in {Segment("s", fr[1], fr[2], cr[1], cr[2]) :
                    fr \in FileRules, cr \in ContentRules}
    /\ patch \in {FilePatch(f[1], f[2], cs) :
                      f \in PatchFiles, cs \in SeqUpTo(ChunkPool, MaxChunks)}
    /\ path = EffectivePath(patch)
    /\ called = ""
    /\ ret = FALSE
    /\ RunIdle

\* s.IsConcerned(p, path), as the loop of getPatchInfo calls it
CallIsConcernedWithPath ==
    /\ called = ""
    /\ called' = "IsConcerned(p, path)"
    /\ ret' = IsConcerned(seg, patch, path)
    /\ UNCHANGED <<seg, path, patch>>
    /\ UNCHANGED runVars

\* s.IsConcerned(p), as the loop of the older getPatchSegments calls it
CallIsConcernedOld ==
    /\ called = ""
    /\ called' = "IsConcerned(p)"
    /\ ret' = IsConcernedOld(seg, patch)
    /\ UNCHANGED <<seg, path, patch>>
    /\ UNCHANGED runVars

NextVariants == CallIsConcernedWithPath \/ CallIsConcernedOld

SpecVariants == InitVariants /\ [][NextVariants]_vars

----------------------------------------------------------------------------
(* The commands as functions of their inputs, and the exit status of main *)

\* one of the orders in which a range statement can visit the keys S
SomeOrder(S) == CHOOSE o \in Orders(S) : TRUE

\* the error submit returns for the changeset C and an outcome of
\* GitReturns, "" for nil
submit(K, C, git) ==
    IF git \in GitFailures THEN GitErr(git)
    ELSE LET r == getPatchInfo(K, C, [i \in 1..Len(C) |-> SomeOrder(DOMAIN K)])
         IN  SubmitCheck(r.paths, r.rel)

\* the error checkPullRequest returns before any remote call is made, ""
\* if it returns none there
checkPullRequest(K, C, u, close, git) ==
    IF getProjectManagerFromURL(u) # "" THEN getProjectManagerFromURL(u)
    ELSE IF git \in GitFailures THEN GitErr(git)
    ELSE LET r == getPatchInfo(K, C, [i \in 1..Len(C) |-> SomeOrder(DOMAIN K)])
         IN  HandlePullRequest(u, r.rel, close, SomeOrder(DOMAIN r.rel),
                               SomeOrder(DOMAIN r.rel)).err

\* the status main exits with when the action of the command returns e
ExitStatus(name, e) ==
    IF e = "" THEN 0
    ELSE CASE name = "list" -> 3
           [] name = "submit" -> 4
           [] name = "update-pull-request" -> 5
           [] name = "ask" -> 6
           [] OTHER -> 0

\* the exit status of the process: 1 from the Before hook when
\* initMaintainers failed, 2 from the Go runtime after a panic, that of the
\* command otherwise
ExitCode ==
    IF pc = "exit" THEN 1
    ELSE IF pc = "panic" THEN 2
    ELSE IF pc = "done" THEN ExitStatus(cmd.name, err)
    ELSE 0

----------------------------------------------------------------------------
(* Repeated sorts of one resolved set *)

SortNames == {"s1", "s2", "s3", "s4"}
SortPriorities == {0, 1, 3}

InitSort ==
    /\ MatchIdle
    /\ raw = NoFile
    /\ config = EmptyMap
    /\ changeset = <<>>
    /\ cmd = NoCmd
    /\ pc = "idle"
    /\ idx = 0
    /\ \E N \in SUBSET SortNames :
        \E prio \in [N -> SortPriorities] :
            relatedSegments =
                [n \in N |-> [Segment(n, <<>>, <<>>, <<>>, <<>>)
                                 EXCEPT !.Priority = prio[n]]]
    /\ paths = <<>>
    /\ os = <<>>
    /\ osPrev = <<>>
    /\ printed = <<>>
    /\ err = ""
    /\ calls = <<>>
    /\ pr = NoPR

\* os is made from the map and sorted, as submit and HandlePullRequest do
SortCall ==
    /\ Cardinality(DOMAIN relatedSegments) > 0
    /\ \E ord \in Orders(DOMAIN relatedSegments) :
        /\ os' = SortedSegments(relatedSegments, ord)
        /\ osPrev' = os
    /\ UNCHANGED <<raw, config, changeset, cmd, pc, idx, relatedSegments,
                   paths, printed, err, calls, pr>>
    /\ UNCHANGED matchVars

NextSort == SortCall

SpecSort == InitSort /\ [][NextSort]_vars

----------------------------------------------------------------------------
(* Properties of the matcher *)

\* the pattern compiles and is found in s
Matches(p, s) == MatchString(p, s).match /\ ~MatchString(p, s).err

SomeMatches(ps, s) == \E i \in 1..Len(ps) : Matches(ps[i], s)

\* C1: IsFileNameMatch(S, P) is true iff at least one pattern of
\* S.FilePatterns matches P and no pattern of S.FileExcludePatterns matches
\* P, and the result is the same for every reordering of the exclude
\* patterns and of the include patterns.
C1_FileNameMatchIff ==
    called = "IsFileNameMatch" =>
        /\ ret = (/\ SomeMatches(seg.FilePatterns, path)
                  /\ ~SomeMatches(seg.FileExcludePatterns, path))
        /\ \A e \in Perms(seg.FileExcludePatterns) :
               IsFileNameMatch([seg EXCEPT !.FileExcludePatterns = e], path) = ret
        /\ \A f \in Perms(seg.FilePatterns) :
               IsFileNameMatch([seg EXCEPT !.FilePatterns = f], path) = ret

\* an include pattern matches, the first exclude pattern does not and the
\* second does: the path is rejected
C1_Witness ==
    /\ called = "IsFileNameMatch"
    /\ ~ret
    /\ SomeMatches(seg.FilePatterns, path)
    /\ Len(seg.FileExcludePatterns) = 2
    /\ ~Matches(seg.FileExcludePatterns[1], path)
    /\ Matches(seg.FileExcludePatterns[2], path)

\* the text of every chunk, in chunk order
RECURSIVE AllText(_)
AllText(chunks) ==
    IF chunks = <<>> THEN <<>>
    ELSE AllText(SubSeq(chunks, 1, Len(chunks) - 1))
         \o chunks[Len(chunks)].Content

ContentRuleAccepts(S, buf) ==
    /\ SomeMatches(S.ContentPatterns, buf)
    /\ ~SomeMatches(S.ContentExcludePatterns, buf)

\* C2: IsConcerned(S, p, path) is true iff IsFileNameMatch(S, path) holds or
\* the content rule accepts the concatenation, in chunk order, of the text of
\* every chunk of p (equal, added and deleted alike); in particular a segment
\* with no file patterns whose content rule accepts is concerned whatever the
\* file name.
C2_ConcernedIff ==
    called = "IsConcerned" =>
        /\ ret = (\/ IsFileNameMatch(seg, path)
                  \/ ContentRuleAccepts(seg, AllText(patch.Chunks)))
        /\ (/\ seg.FilePatterns = <<>>
            /\ ContentRuleAccepts(seg, AllText(patch.Chunks))) => ret

\* the segment is concerned by content alone, through a pattern that no
\* single chunk contains: it is found across a deleted and an added chunk
C2_Witness ==
    /\ called = "IsConcerned"
    /\ ret
    /\ seg.FilePatterns = <<>>
    /\ Len(patch.Chunks) = 2
    /\ patch.Chunks[1].Type = Delete
    /\ patch.Chunks[2].Type = Add
    /\ \A i \in 1..2 : ~SomeMatches(seg.ContentPatterns, patch.Chunks[i].Content)

----------------------------------------------------------------------------
(* Properties of the resolution *)

\* getPatchInfo has returned its maps, and no error
PatchInfoReturned ==
    /\ cmd.git = "ok"
    /\ \/ pc = "patches" /\ idx > Len(changeset)
       \/ pc \in {"comment", "close", "labels", "assignees"}
       \/ pc = "done" /\ cmd.name = "submit"
       \/ pc = "done" /\ cmd.name = "update-pull-request"
                      /\ getProjectManagerFromURL(cmd.u) = ""

\* the new path, or the old path for a pure deletion
NewOrOldPath(p) == IF p.To # Nil THEN p.To ELSE p.From

ConcernedBySome(S, C) ==
    \E i \in 1..Len(C) : IsConcerned(S, C[i], NewOrOldPath(C[i]))

\* C3: the resolved set holds segment S, under S's name and once, iff S is a
\* configured segment and IsConcerned(S, p, effectivePath(p)) holds for at
\* least one file-patch p of the changeset; no configured segment is modified.
C3_ResolvedIffConcerned ==
    /\ config = initMaintainers(raw).segments
    /\ PatchInfoReturned =>
        /\ DOMAIN relatedSegments =
               {n \in DOMAIN config : ConcernedBySome(config[n], changeset)}
        /\ \A n \in DOMAIN relatedSegments :
               /\ relatedSegments[n] = config[n]
               /\ relatedSegments[n].Name = n
        /\ \A n, m \in DOMAIN relatedSegments :
               relatedSegments[n] = relatedSegments[m] => n = m

\* two patches concern the same segment, one of them concerns a second
\* segment too, and a configured segment is left out
C3_Witness ==
    /\ PatchInfoReturned
    /\ Len(changeset) = 2
    /\ \E n \in DOMAIN relatedSegments :
           /\ IsConcerned(config[n], changeset[1], NewOrOldPath(changeset[1]))
           /\ IsConcerned(config[n], changeset[2], NewOrOldPath(changeset[2]))
    /\ \E n, m \in DOMAIN relatedSegments :
           /\ n # m
           /\ IsConcerned(config[n], changeset[1], NewOrOldPath(changeset[1]))
           /\ IsConcerned(config[m], changeset[1], NewOrOldPath(changeset[1]))
    /\ DOMAIN relatedSegments # DOMAIN config

\* C4: the set of resolved segment names is the same for every permutation of
\* the file-patches of the changeset and every order in which the configured
\* segments are ranged over.
C4_PatchOrderIrrelevant ==
    (pc = "patches" /\ idx > Len(changeset)) =>
        \A q \in Perms(changeset) :
            \A ord \in Orders(DOMAIN config) :
                DOMAIN getPatchInfo(config, q,
                                    [i \in 1..Len(q) |-> ord]).rel
                    = DOMAIN relatedSegments

\* two patches that concern different sets of segments have been resolved
C4_Witness ==
    /\ pc = "patches" /\ idx > Len(changeset)
    /\ Len(changeset) = 2
    /\ Cardinality(DOMAIN relatedSegments) >= 2
    /\ \E n, m \in DOMAIN relatedSegments :
           /\ IsConcerned(config[n], changeset[1], NewOrOldPath(changeset[1]))
           /\ ~IsConcerned(config[n], changeset[2], NewOrOldPath(changeset[2]))
           /\ IsConcerned(config[m], changeset[2], NewOrOldPath(changeset[2]))
           /\ ~IsConcerned(config[m], changeset[1], NewOrOldPath(changeset[1]))

----------------------------------------------------------------------------
(* Properties of submit *)

Resolved == {relatedSegments[n] : n \in DOMAIN relatedSegments}

NoDuplicates(s) == \A i, j \in 1..Len(s) : s[i] = s[j] => i = j

\* the position of the first segment of o whose repository is r
FirstOwner(o, r) ==
    CHOOSE i \in 1..Len(o) :
        o[i].Repository = r /\ \A k \in 1..(i - 1) : o[k].Repository # r

\* the highest priority of a resolved segment whose repository is r
TopPriorityOf(r) ==
    CHOOSE x \in {s.Priority : s \in Resolved} :
        /\ \E s \in Resolved : s.Repository = r /\ s.Priority = x
        /\ \A s \in Resolved : s.Repository = r => s.Priority <= x

SubmitSucceeded == cmd.name = "submit" /\ pc = "done" /\ err = ""

\* C5: when submit succeeds the repositories printed are those of the resolved
\* segments sorted by descending Priority, each distinct one once, at the
\* place of its first occurrence in that order; so a repository of a
\* higher-priority segment is never printed after one owned only by
\* lower-priority segments.
C5_SubmitListing ==
    SubmitSucceeded =>
        /\ Len(os) = Cardinality(Resolved)
        /\ Range(os) = Resolved
        /\ \A i, j \in 1..Len(os) : i < j => os[i].Priority >= os[j].Priority
        /\ NoDuplicates(printed)
        /\ Range(printed) = {s.Repository : s \in Resolved}
        /\ \A i, j \in 1..Len(printed) :
               i < j => /\ FirstOwner(os, printed[i]) < FirstOwner(os, printed[j])
                        /\ TopPriorityOf(printed[i]) >= TopPriorityOf(printed[j])

\* three segments of three priorities are resolved, the lowest one has the
\* repository of the highest one, and two repositories are printed
C5_Witness ==
    /\ SubmitSucceeded
    /\ Len(os) = 3
    /\ os[1].Priority > os[2].Priority
    /\ os[2].Priority > os[3].Priority
    /\ os[3].Repository = os[1].Repository
    /\ printed = <<os[1].Repository, os[2].Repository>>

\* C7: submit fails with "No files to submit" when the changeset yields no
\* affected path, and with the different error "No matching segments found
\* for this patch" when it yields a path but no segment; the first check
\* comes first, and nothing is printed in either case.
C7_SubmitNoMatchErrors ==
    /\ ErrNoFiles # ErrNoSegments
    /\ (cmd.name = "submit" /\ pc = "done" /\ cmd.git = "ok") =>
        /\ Len(paths) = 0 => err = ErrNoFiles /\ printed = <<>>
        /\ (Len(paths) > 0 /\ Cardinality(Resolved) = 0) =>
               err = ErrNoSegments /\ printed = <<>>
        /\ err \in {ErrNoFiles, ErrNoSegments} =>
               Len(paths) = 0 \/ Cardinality(Resolved) = 0

\* submit has failed on a changeset of two paths that concern no segment,
\* though segments are configured
C7_Witness ==
    /\ cmd.name = "submit"
    /\ pc = "done"
    /\ err = ErrNoSegments
    /\ Len(paths) = 2
    /\ Cardinality(DOMAIN config) > 0
    /\ printed = <<>>

----------------------------------------------------------------------------
(* Properties of the sort *)

\* the place of the segment named n in o
PlaceOf(o, n) == CHOOSE i \in 1..Len(o) : o[i].Name = n

\* C6: two resolved segments of equal Priority are placed in the same
\* relative order by every repeated sort of the same resolved set.
C6_TiesKeepTheirOrder ==
    (Len(os) > 0 /\ Len(osPrev) > 0) =>
        \A n, m \in DOMAIN relatedSegments :
            relatedSegments[n].Priority = relatedSegments[m].Priority =>
                (PlaceOf(os, n) < PlaceOf(os, m))
                    = (PlaceOf(osPrev, n) < PlaceOf(osPrev, m))

----------------------------------------------------------------------------
(* Properties of HandlePullRequest *)

\* checkPullRequest has called HandlePullRequest
HandlePullRequestCalled ==
    /\ cmd.name = "update-pull-request"
    /\ cmd.git = "ok"
    /\ getProjectManagerFromURL(cmd.u) = ""
    /\ pc \in {"done", "comment", "close", "labels", "assignees"}

\* the path of the URL is /{owner}/{repo}/pull/{number}
WellFormedPullURL(u) ==
    /\ ParseOK(u)
    /\ LET p == URLPath(u)
       IN  /\ Len(p) = 8
           /\ \A i \in {1, 3, 5, 7} : p[i] = "/"
           /\ \A i \in {2, 4} : p[i] # "/"
           /\ p[6] = "pull"
           /\ p[8] \in Digits

\* the repository of some resolved segment is a prefix of the URL
SomeRepositoryPrefixes(u) == \E s \in Resolved : IsPrefix(s.Repository, u)

\* the same, of a segment that has a repository
SomeNamedRepositoryPrefixes(u) ==
    \E s \in Resolved : s.Repository # <<>> /\ IsPrefix(s.Repository, u)

\* the call was on a well-formed URL and a non-empty resolved set in which
\* no segment's repository prefixes the URL
UnownedPullRequest ==
    /\ HandlePullRequestCalled
    /\ WellFormedPullURL(cmd.u)
    /\ Cardinality(Resolved) > 0
    /\ ~SomeRepositoryPrefixes(cmd.u)

\* C8: on a well-formed URL, a non-empty resolved set in which no segment's
\* repository prefixes the URL, and close=false, HandlePullRequest returns
\* "No repository found for this pull request" and makes no remote call.
C8_NoRepositoryNoCalls ==
    (UnownedPullRequest /\ ~cmd.close) =>
        /\ pc = "done"
        /\ err = ErrNoRepo
        /\ calls = <<>>

C8_Witness ==
    /\ UnownedPullRequest
    /\ ~cmd.close
    /\ Cardinality(Resolved) = 2
    /\ err = ErrNoRepo

\* the repositories of the resolved segments of the highest priority
TopRepositories ==
    {s.Repository : s \in {t \in Resolved :
                              \A x \in Resolved : x.Priority <= t.Priority}}

\* the call c is on the owner, the repository and the number of the URL
ThePullRequest(c) ==
    /\ Len(c.user) = 1 /\ Len(c.repo) = 1 /\ Len(c.num) = 1
    /\ cmd.u = <<GitHub, "/", c.user[1], "/", c.repo[1], "/", "pull", "/",
                 c.num[1]>>

\* C9: on a well-formed URL, a non-empty resolved set in which no segment's
\* repository prefixes the URL, and close=true, HandlePullRequest makes, when
\* both succeed, one comment call naming the Repository of the
\* highest-priority resolved segment, then one edit call setting the state to
\* closed, and no label or assignee call.
C9_CommentThenClose ==
    (UnownedPullRequest /\ cmd.close) =>
        /\ Len(calls) <= 2
        /\ Len(calls) >= 1 =>
               /\ calls[1].op = "CreateComment"
               /\ calls[1].arg \in TopRepositories
               /\ ThePullRequest(calls[1])
        /\ Len(calls) = 2 =>
               /\ calls[2].op = "Edit"
               /\ calls[2].arg = "closed"
               /\ ThePullRequest(calls[2])
        /\ (pc = "done" /\ err = "") => Len(calls) = 2
        /\ pc \in {"comment", "close", "done"}
        /\ err \in {"", ErrComment, ErrClose}

\* the pull request was closed after a comment naming the repository of the
\* first of two resolved segments of different priorities and repositories
C9_Witness ==
    /\ UnownedPullRequest
    /\ cmd.close
    /\ pc = "done"
    /\ err = ""
    /\ Len(calls) = 2
    /\ Cardinality({s.Priority : s \in Resolved}) = 2
    /\ Cardinality({s.Repository : s \in Resolved}) = 2

AllTopics == UNION {Range(s.Topics) : s \in Resolved}
AllChiefs == UNION {Range(s.Chiefs) : s \in Resolved}

NoCallFailed == err \notin {ErrComment, ErrClose, ErrLabels, ErrAssignees}

\* what C10 promises of the calls made
LabelsThenAssignees ==
    /\ Len(calls) <= 2
    /\ Len(calls) >= 1 =>
           /\ calls[1].op = "AddLabelsToIssue"
           /\ NoDuplicates(calls[1].arg)
           /\ Range(calls[1].arg) = AllTopics
           /\ ThePullRequest(calls[1])
    /\ Len(calls) = 2 =>
           /\ calls[2].op = "AddAssignees"
           /\ NoDuplicates(calls[2].arg)
           /\ Range(calls[2].arg) = AllChiefs
           /\ ThePullRequest(calls[2])
    /\ (pc = "done" /\ NoCallFailed) => Len(calls) = 2 /\ err = ""
    /\ pc \in {"labels", "assignees", "done"}

\* C10 as claimed: when some resolved segment's repository prefixes the
\* well-formed URL and every remote call succeeds, HandlePullRequest makes one
\* add-labels call with the deduplicated union of the Topics of all resolved
\* segments, then one add-assignees call with the deduplicated union of their
\* Chiefs, and no comment or close call.
C10_AsClaimed ==
    (/\ HandlePullRequestCalled
     /\ WellFormedPullURL(cmd.u)
     /\ SomeRepositoryPrefixes(cmd.u)) => LabelsThenAssignees

\* C10 amended: the same, when some resolved segment has a non-empty
\* Repository that prefixes the well-formed URL.
C10_LabelsThenAssignees ==
    (/\ HandlePullRequestCalled
     /\ WellFormedPullURL(cmd.u)
     /\ SomeNamedRepositoryPrefixes(cmd.u)) => LabelsThenAssignees

\* both calls were made and succeeded, for a resolved set with a segment whose
\* repository does not prefix the URL and topics and chiefs that repeat
C10_Witness ==
    /\ HandlePullRequestCalled
    /\ WellFormedPullURL(cmd.u)
    /\ SomeNamedRepositoryPrefixes(cmd.u)
    /\ pc = "done"
    /\ err = ""
    /\ Len(calls) = 2
    /\ \E s \in Resolved : s.Repository # <<>> /\ ~IsPrefix(s.Repository, cmd.u)
    /\ \E s, t \in Resolved : s # t /\ Range(s.Topics) \cap Range(t.Topics) # {}
    /\ \E s, t \in Resolved : s # t /\ Range(s.Chiefs) \cap Range(t.Chiefs) # {}

\* C11: a pull request URL whose path is not /{owner}/{repo}/pull/{number}
\* makes HandlePullRequest return an error, and no remote call is made,
\* whatever the resolved set and the close flag are.
C11_MalformedURLNoCalls ==
    (HandlePullRequestCalled /\ ~WellFormedPullURL(cmd.u)) =>
        /\ pc = "done"
        /\ err \in {ErrNoSegmentsPR, ErrInvalidURL}
        /\ Cardinality(Resolved) > 0 => err = ErrInvalidURL
        /\ calls = <<>>

\* the handler was asked to close a pull request whose URL has a non-numeric
\* number under the repository of a resolved segment, and refused the URL
C11_Witness ==
    /\ HandlePullRequestCalled
    /\ ~WellFormedPullURL(cmd.u)
    /\ cmd.u = PullURL(<<"acme">>, <<"widgets">>, "pull", "x")
    /\ cmd.close
    /\ SomeNamedRepositoryPrefixes(cmd.u)
    /\ \E s \in Resolved : ~IsPrefix(s.Repository, cmd.u)
    /\ err = ErrInvalidURL

\* C12: called with an empty resolved set, HandlePullRequest returns the
\* "no matching segments" error before any other check and makes no remote
\* call, whatever the URL and the close flag are.
C12_EmptyResolvedSetFirst ==
    /\ (HandlePullRequestCalled /\ Cardinality(Resolved) = 0) =>
           /\ pc = "done"
           /\ err = ErrNoSegmentsPR
           /\ calls = <<>>
           /\ os = <<>>
           /\ pr = NoPR
    /\ \A u \in PRURLs \cup {<<GitHub, "/", "%zz">>}, close \in BOOLEAN :
           LET r == HandlePullRequest(u, EmptyMap, close, <<>>, <<>>)
           IN  r.pc = "done" /\ r.err = ErrNoSegmentsPR

\* the handler got no segment for a changeset of two patches, a malformed URL
\* and the close flag
C12_Witness ==
    /\ HandlePullRequestCalled
    /\ Cardinality(Resolved) = 0
    /\ Cardinality(DOMAIN config) > 0
    /\ Len(changeset) = 2
    /\ ~WellFormedPullURL(cmd.u)
    /\ cmd.close
    /\ err = ErrNoSegmentsPR

\* a section other than DEFAULT has no chiefs
SomeSectionWithoutChiefs ==
    \E i \in 1..Len(raw.sections) :
        raw.sections[i].Name # "DEFAULT" /\ raw.sections[i].Chiefs = <<>>

\* C13: if a section other than DEFAULT has no chiefs, initMaintainers returns
\* an error and no Config, and the process exits in the Before hook: no
\* command and no resolution is run.
C13_NoChiefsNoRun ==
    SomeSectionWithoutChiefs =>
        /\ ~initMaintainers(raw).ok
        /\ initMaintainers(raw).err = ErrMissingChiefs
        /\ initMaintainers(raw).segments = EmptyMap
        /\ config = EmptyMap
        /\ pc = "exit"
        /\ err = ErrMissingChiefs
        /\ cmd = NoCmd
        /\ idx = 0
        /\ relatedSegments = EmptyMap
        /\ paths = <<>>
        /\ printed = <<>>
        /\ calls = <<>>

\* the process has exited on a file whose third section has no chiefs, after
\* a section that has one and before another
C13_Witness ==
    /\ pc = "exit"
    /\ Len(raw.sections) = 4
    /\ raw.sections[2].Chiefs # <<>>
    /\ raw.sections[3].Chiefs = <<>>
    /\ raw.sections[4].Chiefs # <<>>
    /\ err = ErrMissingChiefs

CallErrors == {ErrComment, ErrClose, ErrLabels, ErrAssignees}

Ops(cs) == [i \in 1..Len(cs) |-> cs[i].op]

\* the remote calls made when the handler has returned the error e of a call
CallsBefore(e) ==
    CASE e = ErrComment -> <<"CreateComment">>
      [] e = ErrClose -> <<"CreateComment", "Edit">>
      [] e = ErrLabels -> <<"AddLabelsToIssue">>
      [] e = ErrAssignees -> <<"AddLabelsToIssue", "AddAssignees">>

\* C14: after the first failing remote call HandlePullRequest returns its
\* error at once: the failed call is the last one (no assignees call after a
\* failed labels call, no close call after a failed comment call), no
\* operation is called twice, and the calls made are never taken back.
C14_FirstFailureIsLast ==
    /\ [](/\ NoDuplicates(Ops(calls))
          /\ Range(Ops(calls)) \subseteq
                 {"CreateComment", "Edit", "AddLabelsToIssue", "AddAssignees"}
          /\ err \in CallErrors => pc = "done" /\ Ops(calls) = CallsBefore(err))
    /\ [][/\ IsPrefix(calls, calls')
          /\ Len(calls') <= Len(calls) + 1
          /\ err \in CallErrors => calls' = calls /\ err' = err]_vars

\* the labels were added, the assignees call failed, and the handler returned
\* with both calls made
C14_Witness ==
    /\ HandlePullRequestCalled
    /\ pc = "done"
    /\ err = ErrAssignees
    /\ Len(calls) = 2
    /\ calls[1].op = "AddLabelsToIssue"
    /\ calls[1].arg # <<>>

----------------------------------------------------------------------------
(* Properties of the command layer *)

\* C15: no two different failure conditions end the process with the same
\* exit status: the status of a failed command differs from the status with
\* which the same command, on the same maintainers file, ends for any other
\* failure, and from the status of a failed load.
C15_DistinctExitCodes ==
    (pc = "done" /\ err # "") =>
        /\ ExitCode \notin {0, 1}
        /\ cmd.name = "submit" =>
               \A C \in SeqUpTo(PatchPool, MaxPatches), git \in GitReturns :
                   LET e == submit(config, C, git)
                   IN  (e # "" /\ e # err) =>
                           ExitStatus("submit", e) # ExitCode
        /\ cmd.name = "update-pull-request" =>
               \A C \in SeqUpTo(PatchPool, MaxPatches), u \in PRURLs,
                  git \in GitReturns :
                   LET e == checkPullRequest(config, C, u, cmd.close, git)
                   IN  (e # "" /\ e # err) =>
                           ExitStatus("update-pull-request", e) # ExitCode

\* C16: the error update-pull-request reports for a changeset without
\* affected paths differs from the one it reports, for the same maintainers
\* file, URL and close flag, for every changeset that has affected paths but
\* concerns no segment.
C16_NoPathsToldApart ==
    (HandlePullRequestCalled /\ pc = "done" /\ Len(paths) = 0) =>
        /\ err # ""
        /\ \A C \in SeqUpTo(PatchPool, MaxPatches) :
               LET r == getPatchInfo(config, C,
                            [i \in 1..Len(C) |-> SomeOrder(DOMAIN config)])
               IN  (Len(r.paths) > 0 /\ DOMAIN r.rel = {}) =>
                       checkPullRequest(config, C, cmd.u, cmd.close, "ok") # err

\* the orders of the resolved segments by descending priority
PriorityOrders ==
    {o \in Orders(DOMAIN relatedSegments) :
         \A i, j \in 1..Len(o) :
             i < j => relatedSegments[o[i]].Priority
                          >= relatedSegments[o[j]].Priority}

\* the topics and the chiefs by first occurrence along the order o
FirstOccurrences(o) ==
    RangeLoop(cmd.u, relatedSegments, o,
              [repoURL |-> <<>>, prTopics |-> <<>>, prChiefs |-> <<>>])

\* C17: the topics and the chiefs handed to the tracker hold every value
\* once, ordered by first occurrence when the resolved segments are gone
\* through by descending priority.
C17_ListsInPriorityOrder ==
    \A i \in 1..Len(calls) :
        /\ calls[i].op = "AddLabelsToIssue" =>
               /\ NoDuplicates(calls[i].arg)
               /\ Range(calls[i].arg) = AllTopics
               /\ \E o \in PriorityOrders :
                      calls[i].arg = FirstOccurrences(o).prTopics
        /\ calls[i].op = "AddAssignees" =>
               /\ NoDuplicates(calls[i].arg)
               /\ Range(calls[i].arg) = AllChiefs
               /\ \E o \in PriorityOrders :
                      calls[i].arg = FirstOccurrences(o).prChiefs

\* the elements of s, each once, in the order in which they are first seen
RECURSIVE FirstSeen(_)
FirstSeen(s) ==
    IF s = <<>> THEN <<>>
    ELSE LET r == FirstSeen(SubSeq(s, 1, Len(s) - 1))
         IN  IF s[Len(s)] \in Range(r) THEN r ELSE Append(r, s[Len(s)])

ConcernsSome(p) ==
    \E n \in DOMAIN config : IsConcerned(config[n], p, NewOrOldPath(p))

PathsOf(C) == [i \in 1..Len(C) |-> NewOrOldPath(C[i])]

\* C18 as claimed: the paths getPatchInfo returns are, each once and in
\* first-seen order, the effective paths of exactly those file-patches by
\* which some configured segment is concerned.
C18_AsClaimed ==
    PatchInfoReturned =>
        paths = FirstSeen(PathsOf(SelectSeq(changeset, ConcernsSome)))

\* C18 amended: the paths getPatchInfo returns are, each once and in
\* first-seen order, the effective paths (the new path, the old one for a
\* deletion) of all file-patches of the changeset, concerned or not.
C18_AllEffectivePaths ==
    /\ PatchInfoReturned => paths = FirstSeen(PathsOf(changeset))
    /\ pc = "patches" =>
           paths = FirstSeen(PathsOf(SubSeq(changeset, 1, idx - 1)))

\* a deletion by which no segment is concerned and a patch by which one is
\* have been gone through, and both paths are returned
C18_Witness ==
    /\ PatchInfoReturned
    /\ Len(changeset) = 2
    /\ changeset[1].To = Nil
    /\ ~ConcernsSome(changeset[1])
    /\ ConcernsSome(changeset[2])
    /\ paths = <<changeset[1].From, changeset[2].To>>

----------------------------------------------------------------------------
(* Malformed patterns *)

\* the pattern does not compile as it stands in the list
Malformed(p) == p.kind \in {"bad", "quest", "trail"}

WellFormedOnly(ps) == SelectSeq(ps, LAMBDA p : ~Malformed(p))

\* the segment S with the malformed patterns removed from its four lists
WithoutMalformed(S) ==
    [S EXCEPT !.FilePatterns = WellFormedOnly(@),
              !.FileExcludePatterns = WellFormedOnly(@),
              !.ContentPatterns = WellFormedOnly(@),
              !.ContentExcludePatterns = WellFormedOnly(@)]

\* C19: a malformed pattern in any of the four lists of a segment does not
\* end the matching: IsFileNameMatch and IsConcerned return what they return
\* for the segment with the malformed patterns removed, so the well-formed
\* patterns after a malformed one still count.
C19_MalformedPatternsIgnored ==
    /\ IsFileNameMatch(seg, path) = IsFileNameMatch(WithoutMalformed(seg), path)
    /\ IsConcerned(seg, patch, path)
           = IsConcerned(WithoutMalformed(seg), patch, path)
    /\ called = "IsConcerned" =>
           ret = IsConcerned(WithoutMalformed(seg), patch, path)

\* each of the four lists starts with a malformed pattern; the exclude
\* pattern after it rejected the path, and the content pattern after it
\* accepted the patch
C19_Witness ==
    /\ called = "IsConcerned"
    /\ ret
    /\ \A ps \in {seg.FilePatterns, seg.FileExcludePatterns,
                  seg.ContentPatterns, seg.ContentExcludePatterns} :
           Len(ps) = 2 /\ Malformed(ps[1]) /\ ~Malformed(ps[2])
    /\ Matches(seg.FilePatterns[2], path)
    /\ Matches(seg.FileExcludePatterns[2], path)
    /\ ~IsFileNameMatch(seg, path)

----------------------------------------------------------------------------
(* The repository of the pull request *)

\* the handler went the way of the labels and the assignees
MatchFound ==
    \/ pc \in {"labels", "assignees"}
    \/ Len(calls) > 0 /\ calls[1].op = "AddLabelsToIssue"

\* it went the other way: the error, or the comment and the closing
NoMatchFound ==
    \/ pc \in {"comment", "close"}
    \/ Len(calls) > 0 /\ calls[1].op = "CreateComment"
    \/ pc = "done" /\ err = ErrNoRepo

\* C20: HandlePullRequest labels and assigns iff some resolved segment has a
\* non-empty Repository that is a prefix of the URL, whatever the order in
\* which the resolved segments are ranged over; a segment without Repository
\* never counts.
C20_MatchIffNamedPrefix ==
    (/\ HandlePullRequestCalled
     /\ WellFormedPullURL(cmd.u)
     /\ Cardinality(Resolved) > 0) =>
        /\ MatchFound = SomeNamedRepositoryPrefixes(cmd.u)
        /\ NoMatchFound = ~SomeNamedRepositoryPrefixes(cmd.u)
        /\ \A o \in Orders(DOMAIN relatedSegments) :
               (FirstOccurrences(o).repoURL # <<>>)
                   = SomeNamedRepositoryPrefixes(cmd.u)

\* labels go to a pull request for which three segments are resolved: one
\* without repository, one with another repository and one whose repository
\* prefixes the URL
C20_Witness ==
    /\ HandlePullRequestCalled
    /\ WellFormedPullURL(cmd.u)
    /\ MatchFound
    /\ Cardinality(Resolved) = 3
    /\ \E s \in Resolved : s.Repository = <<>>
    /\ \E s \in Resolved : s.Repository # <<>> /\ ~IsPrefix(s.Repository, cmd.u)
    /\ \E s \in Resolved : s.Repository # <<>> /\ IsPrefix(s.Repository, cmd.u)

----------------------------------------------------------------------------
(* The two variants of IsConcerned *)

\* C21: for every segment and every file-patch that is not a deletion, the
\* current IsConcerned, called with the new path of the patch, and the older
\* IsConcerned, which takes the path from the patch, return the same.
C21_VariantsAgree ==
    patch.To # Nil =>
        /\ path = patch.To
        /\ IsConcerned(seg, patch, patch.To) = IsConcernedOld(seg, patch)
        /\ called = "IsConcerned(p, path)" => ret = IsConcernedOld(seg, patch)
        /\ called = "IsConcerned(p)" => ret = IsConcerned(seg, patch, patch.To)

\* the older variant has accepted a renamed file by its new name, which the
\* file patterns accept and the old name does not
C21_Witness ==
    /\ called = "IsConcerned(p)"
    /\ ret
    /\ patch.To # Nil
    /\ patch.From # Nil
    /\ patch.From # patch.To
    /\ IsFileNameMatch(seg, patch.To)
    /\ ~IsConcerned(seg, patch, patch.From)

----------------------------------------------------------------------------
(* The chiefs of a pull request *)

\* C22: for every maintainers file initMaintainers accepts and every
\* changeset, HandlePullRequest never returns "Chiefs not found for this pull
\* request": every loaded segment has a chief, the resolved segments are
\* loaded segments as they were loaded, so the chiefs collected from a
\* non-empty resolved set are not empty, whatever the order of the loop.
C22_ChiefsAlwaysFound ==
    /\ \A n \in DOMAIN config : config[n].Chiefs # <<>>
    /\ \A n \in DOMAIN relatedSegments :
           n \in DOMAIN config /\ relatedSegments[n] = config[n]
    /\ err # ErrNoChiefs
    /\ Cardinality(Resolved) > 0 => AllChiefs # {}
    /\ (/\ Cardinality(Resolved) > 0
        /\ cmd.name = "update-pull-request"
        /\ pc # "patches" \/ idx > Len(changeset)) =>
           \A o \in Orders(DOMAIN relatedSegments) :
               FirstOccurrences(o).prChiefs # <<>>
    /\ (HandlePullRequestCalled /\ pr # NoPR) => pr.prChiefs # <<>>

\* the handler has passed its check of the chiefs with the three chiefs of
\* two resolved segments, of a file that has more sections
C22_Witness ==
    /\ HandlePullRequestCalled
    /\ initMaintainers(raw).ok
    /\ pc = "labels"
    /\ Cardinality(Resolved) = 2
    /\ Cardinality(DOMAIN config) > 2
    /\ Len(pr.prChiefs) = 3

====
